---------------------------- MODULE Spec2Model ----------------------------
(***************************************************************************)
(* Model of the image-generator lambdas:                                   *)
(*   src/image-generator/lambda/generate_image.py          (create only)   *)
(*   src/image-generator/lambda/generate_and_list_images.py (router)       *)
(* Each invocation is a process that runs one handler; the external calls  *)
(* (bedrock invoke_model, s3 put_object, s3 list_objects_v2) are the       *)
(* points where concurrent invocations interleave.  The object store is    *)
(* the only state shared between invocations.                              *)
(***************************************************************************)
EXTENDS Integers, Sequences, FiniteSets, TLC

(* ------------------------------ bounds -------------------------------- *)

\* Concurrent invocations the platform runs.
MaxProcs == 2
\* Keys one list_objects_v2 call returns (S3: 1000), scaled down.
MaxKeys == 3
\* Identifiers uuid4 can draw before the model stops creating.
MaxIds == 2
\* Last value of the store's clock (LastModified has one-second resolution).
MaxClock == 1

Procs == 1 .. MaxProcs
\* The identifiers uuid4 can draw; their integer order stands for the
\* lexicographic order of the uuid strings.
Ids == 1 .. MaxIds

(* --------------------------- python values ---------------------------- *)

\* Python's None, and a key that a dict does not hold.
None == "<None>"
Absent == "<absent>"

\* event.get(key, default)
event_get(event, key, default) ==
  IF event[key] = Absent THEN default ELSE event[key]

\* The texts a request body is drawn from.
BodyTexts ==
  { "{}", "{\"prompt\": null}", "{\"prompt\": \"\"}", "{\"prompt\": \"a cat\"}",
    "not json", "[]" }

PyNone == [t |-> "NoneType", s |-> ""]
PyStr(s) == [t |-> "str", s |-> s]
PyList == [t |-> "list", s |-> ""]
PyDict(has, v) == [t |-> "dict", s |-> "", has_prompt |-> has, prompt |-> v]

\* json.loads(text): the parsed value, or the exception raised.
json_loads(text) ==
  CASE text = None -> [exc |-> "TypeError", val |-> PyNone]
    [] text = "{}" -> [exc |-> "", val |-> PyDict(FALSE, PyNone)]
    [] text = "{\"prompt\": null}" -> [exc |-> "", val |-> PyDict(TRUE, PyNone)]
    [] text = "{\"prompt\": \"\"}" -> [exc |-> "", val |-> PyDict(TRUE, PyStr(""))]
    [] text = "{\"prompt\": \"a cat\"}" -> [exc |-> "", val |-> PyDict(TRUE, PyStr("a cat"))]
    [] text = "[]" -> [exc |-> "", val |-> PyList]
    [] OTHER -> [exc |-> "JSONDecodeError", val |-> PyNone]

\* body.get('prompt'): only a dict has .get
body_get_prompt(body) ==
  IF body.t # "dict" THEN [exc |-> "AttributeError", val |-> PyNone]
  ELSE IF body.has_prompt THEN [exc |-> "", val |-> body.prompt]
  ELSE [exc |-> "", val |-> PyNone]

\* Python truthiness of a parsed value.
Truthy(v) ==
  CASE v.t = "NoneType" -> FALSE
    [] v.t = "str" -> v.s # ""
    [] v.t = "list" -> FALSE
    [] OTHER -> TRUE

\* `not X` for an environment variable (None or a string).
EnvFalsy(x) == x = None \/ x = ""

\* str(x) as an f-string formats it.
format(x) == IF x = None THEN "None" ELSE x

(* ------------------------------- keys --------------------------------- *)

\* Keys and URLs are sequences of tokens; "/" is a token of its own.
Prefix == <<"generated-images", "/">>

endswith_slash(key) == Len(key) > 0 /\ key[Len(key)] = "/"

startswith(key, pre) ==
  Len(key) >= Len(pre) /\ SubSeq(key, 1, Len(pre)) = pre


\* f"generated-images/{uuid}.png"
image_key(id) == Prefix \o <<id, ".png">>

\* f"https://{YOUR_NAME}.mixtli.cloud/{key}"
public_url(name, key) == <<"https://", format(name), ".mixtli.cloud/">> \o key

\* Objects the bucket may hold before the first invocation: the console's
\* "folder" object, an image of an earlier deployment (its identifier sorts
\* before those of Ids), and an object outside the prefix.
FolderKey == Prefix
EarlierKey == image_key(0)
OtherKey == <<"uploads", "/", "logo.png">>

\* Position of a key in S3's listing order (UTF-8 binary order of the key):
\* the folder object is a prefix of every image key, image keys follow in
\* the order of their identifiers.
KeyRank(key) == IF Len(key) = Len(Prefix) THEN 0 ELSE key[3]

(* ------------------------------- state -------------------------------- *)

VARIABLES
  BUCKET_NAME,  \* os.environ.get('S3_BUCKET_NAME')
  YOUR_NAME,    \* os.environ.get('YOUR_NAME')
  store,        \* the bucket: key -> LastModified
  now,          \* the store's clock
  issued,       \* identifiers uuid4 has returned
  req,          \* per invocation: handler, event, position, locals, response
  returned      \* history: the imageUrls that 200 responses have carried

vars == <<BUCKET_NAME, YOUR_NAME, store, now, issued, req, returned>>

Bodies == BodyTexts \cup {Absent, None}

\* The events of the create route, and those the router is invoked with.
PostEvents == [httpMethod : {"POST"}, body : Bodies]
Events ==
  PostEvents
    \cup [httpMethod : {"GET", Absent}, body : {Absent}]
    \cup [httpMethod : {"PUT"}, body : {Absent, "{\"prompt\": \"a cat\"}"}]

NoEvent == [httpMethod |-> Absent, body |-> Absent]
NoResponse == [statusCode |-> 0, message |-> "", imageUrl |-> <<>>, images |-> <<>>]

Idle ==
  [ pc |-> "idle", handler |-> "", event |-> NoEvent, prompt |-> "",
    base64_image |-> "", calls |-> {}, model |-> "", storage |-> "",
    listing |-> "", contents |-> <<>>, prior |-> {}, response |-> NoResponse ]

\* {'statusCode': code, 'body': json.dumps({'message': message})}; the message
\* is kept up to its fixed part, the exception's text is left out.
Message(code, message) ==
  [statusCode |-> code, message |-> message, imageUrl |-> <<>>, images |-> <<>>]

\* {'statusCode': 200, 'body': json.dumps({'imageUrl': url})}
ImageUrl(url) ==
  [statusCode |-> 200, message |-> "", imageUrl |-> url, images |-> <<>>]

\* {'statusCode': 200, 'body': json.dumps({'images': urls})}
Images(urls) ==
  [statusCode |-> 200, message |-> "", imageUrl |-> <<>>, images |-> urls]

Done(r, response) == [r EXCEPT !.pc = "done", !.response = response]

InitStores ==
  { <<>>, (FolderKey :> 0) @@ (EarlierKey :> 0) @@ (OtherKey :> 0) }

Init ==
  /\ BUCKET_NAME \in {None, "my-bucket"}
  /\ YOUR_NAME \in {None, "ana"}
  /\ store \in InitStores
  /\ now = 0
  /\ issued = {}
  /\ req = [p \in Procs |-> Idle]
  /\ returned = {}


(* ------------------------- external services -------------------------- *)

\* What bedrock_runtime.invoke_model and the reading of its response can do:
\* the call raises, the body is not JSON, the body has no 'images' (or an
\* empty list), images[0] is not a string, or images[0] is a string that is
\* or is not decodable base64.
ModelOutcomes ==
  {"raises", "malformed", "no_images", "not_str", "ok_base64", "ok_bad_padding"}

\* The payloads a handler holds after the model step.
NotStr == "<not a str>"
GoodBase64 == "iVBORw0KGgo="
BadBase64 == "iVBORw0KGgo"

\* base64.b64decode(payload) returns; otherwise it raises (TypeError for a
\* value that is no string, binascii.Error for incorrect padding).
b64decode_ok(payload) == payload = GoodBase64

\* What s3.put_object and s3.list_objects_v2 can do.
CallOutcomes == {"ok", "raises"}

RECURSIVE SortByRank(_)
\* The keys of a set as S3 lists them.
SortByRank(keys) ==
  IF keys = {} THEN <<>>
  ELSE LET k == CHOOSE x \in keys : \A y \in keys : KeyRank(x) <= KeyRank(y)
       IN <<k>> \o SortByRank(keys \ {k})

Take(seq, n) == SubSeq(seq, 1, IF Len(seq) < n THEN Len(seq) ELSE n)

\* response['Contents'] of list_objects_v2(Bucket, Prefix) with the default
\* MaxKeys: the first MaxKeys objects under the prefix, in key order.  An
\* empty sequence stands for a response without 'Contents'.
list_objects_v2(bucket, pre) ==
  LET keys == Take(SortByRank({k \in DOMAIN bucket : startswith(k, pre)}), MaxKeys)
  IN [i \in 1 .. Len(keys) |-> [Key |-> keys[i], LastModified |-> bucket[keys[i]]]]

\* put_object(Bucket, Key, Body): the object is created or replaced.
put_object(bucket, key, time) ==
  [k \in DOMAIN bucket \cup {key} |-> IF k = key THEN time ELSE bucket[k]]

\* uuid4 as a generator that may repeat itself.
uuid4_repeating == Ids

\* uuid.uuid4(): an identifier that was never returned before (RFC 4122's
\* contract for the generator).
uuid4 == Ids \ issued

(* ----------------------------- list_images ---------------------------- *)

RECURSIVE InsertDesc(_, _)
\* obj placed in a sequence ordered by LastModified descending, after the
\* elements that are not older than it (sorted is stable, and with
\* reverse=True equal elements keep their original order).
InsertDesc(sortedSeq, obj) ==
  IF sortedSeq = <<>> THEN <<obj>>
  ELSE IF Head(sortedSeq).LastModified >= obj.LastModified
       THEN <<Head(sortedSeq)>> \o InsertDesc(Tail(sortedSeq), obj)
       ELSE <<obj>> \o sortedSeq

\* The sort without reverse=True, as far as a two-way choice shows it: the
\* newest object last.
RECURSIVE InsertAsc(_, _)
InsertAsc(sortedSeq, obj) ==
  IF sortedSeq = <<>> THEN <<obj>>
  ELSE IF Head(sortedSeq).LastModified <= obj.LastModified
       THEN <<Head(sortedSeq)>> \o InsertAsc(Tail(sortedSeq), obj)
       ELSE <<obj>> \o sortedSeq

RECURSIVE sorted_plain(_)
sorted_plain(contents) ==
  IF contents = <<>> THEN <<>>
  ELSE InsertAsc(sorted_plain(SubSeq(contents, 1, Len(contents) - 1)),
                 contents[Len(contents)])

RECURSIVE sorted_reverse(_)
\* sorted(contents, key=lambda obj: obj['LastModified'], reverse=True)
sorted_reverse(contents) ==
  IF contents = <<>> THEN <<>>
  ELSE InsertDesc(sorted_reverse(SubSeq(contents, 1, Len(contents) - 1)),
                  contents[Len(contents)])

\* if not key.endswith('/'): the objects list_images keeps.
is_file(key) == ~endswith_slash(key)

RECURSIVE image_urls(_, _)
\* The loop over sorted_objects.
image_urls(name, objs) ==
  IF objs = <<>> THEN <<>>
  ELSE (IF is_file(Head(objs).Key)
        THEN <<public_url(name, Head(objs).Key)>> ELSE <<>>)
       \o image_urls(name, Tail(objs))

\* list_images() once list_objects_v2 has answered with `contents`, or raised.
list_images(name, outcome, contents) ==
  IF outcome = "raises" THEN <<>>
  ELSE image_urls(name, sorted_reverse(contents))


(* ------------------- generate_image.lambda_handler -------------------- *)

\* Step 1, "Validate Input": the response the handler returns there, or
\* NoResponse when it goes on to the model.  Every exception of the block,
\* the two ValueErrors for the environment included, is answered with 400.
GI_validate(event) ==
  LET parsed == json_loads(event_get(event, "body", "{}"))
      got == body_get_prompt(parsed.val)
  IN IF parsed.exc # "" THEN Message(400, "Invalid request body:")
     ELSE IF got.exc # "" THEN Message(400, "Invalid request body:")
     ELSE IF ~Truthy(got.val) THEN Message(400, "Prompt is required.")
     ELSE IF EnvFalsy(BUCKET_NAME) THEN Message(400, "Invalid request body:")
     ELSE IF EnvFalsy(YOUR_NAME) THEN Message(400, "Invalid request body:")
     ELSE NoResponse

\* The prompt a validated event carries.
prompt_of(event) ==
  body_get_prompt(json_loads(event_get(event, "body", "{}")).val).val.s

\* Step 2 answering with step 3's message.
GI_model_error_as_upload == Message(500, "Error saving image:")

\* The handler's answer to an exception of step 2.
GI_model_error == Message(500, "Error generating image:")

\* The handler's answer to an exception of step 3.
GI_upload_error == Message(500, "Error saving image:")

\* The handler is invoked and runs up to its first external call.
GI_Receive(p, event) ==
  /\ req[p].pc = "idle"
  /\ LET r == [Idle EXCEPT !.handler = "generate_image", !.event = event]
         v == GI_validate(event)
     IN req' = [req EXCEPT ![p] =
          IF v # NoResponse THEN Done(r, v)
          ELSE [r EXCEPT !.pc = "invoke", !.prompt = prompt_of(event)]]
  /\ UNCHANGED <<BUCKET_NAME, YOUR_NAME, store, now, issued, returned>>

\* Step 2, "Invoke Bedrock Model": invoke_model, json.loads of the body,
\* ['images'][0] and .encode('ascii'), all inside one try.
GI_InvokeModel(p, outcome) ==
  /\ req[p].pc = "invoke"
  /\ req[p].handler = "generate_image"
  /\ LET r == [req[p] EXCEPT !.calls = @ \cup {"invoke_model"}]
     IN req' = [req EXCEPT ![p] =
          CASE outcome = "ok_base64" ->
                 [r EXCEPT !.pc = "upload", !.model = "ok", !.base64_image = GoodBase64]
            [] outcome = "ok_bad_padding" ->
                 [r EXCEPT !.pc = "upload", !.model = "ok", !.base64_image = BadBase64]
            [] OTHER -> Done([r EXCEPT !.model = "failed"], GI_model_error)]
  /\ UNCHANGED <<BUCKET_NAME, YOUR_NAME, store, now, issued, returned>>

\* Step 3, "Upload Image to S3", where b64decode raises.
GI_DecodeFails(p) ==
  /\ req[p].pc = "upload"
  /\ req[p].handler = "generate_image"
  /\ ~b64decode_ok(req[p].base64_image)
  /\ req' = [req EXCEPT ![p] = Done([@ EXCEPT !.storage = "failed"], GI_upload_error)]
  /\ UNCHANGED <<BUCKET_NAME, YOUR_NAME, store, now, issued, returned>>

\* Step 3, "Upload Image to S3": b64decode, uuid4, put_object, the URL, and
\* step 4, the 200 response.
GI_Upload(p, id, outcome) ==
  /\ req[p].pc = "upload"
  /\ req[p].handler = "generate_image"
  /\ b64decode_ok(req[p].base64_image)
  /\ id \in uuid4
  /\ issued' = issued \cup {id}
  /\ LET image_key_ == image_key(id)
         image_url == public_url(YOUR_NAME, image_key_)
         r == [req[p] EXCEPT !.calls = @ \cup {"put_object"}]
     IN IF outcome = "ok"
        THEN /\ store' = put_object(store, image_key_, now)
             /\ req' = [req EXCEPT ![p] = Done([r EXCEPT !.storage = "ok"], ImageUrl(image_url))]
             /\ returned' = returned \cup {image_url}
        ELSE /\ req' = [req EXCEPT ![p] = Done([r EXCEPT !.storage = "failed"], GI_upload_error)]
             /\ UNCHANGED <<store, returned>>
  /\ UNCHANGED <<BUCKET_NAME, YOUR_NAME, now>>


(* -------------- generate_and_list_images.lambda_handler --------------- *)

\* A dispatch that lists for every method but POST.
Router_dispatch_get_default(http_method) ==
  IF http_method = "POST" THEN "POST" ELSE "GET"

\* The branch the router takes for event.get('httpMethod').
Router_dispatch(http_method) ==
  CASE http_method = "POST" -> "POST"
    [] http_method = "GET" -> "GET"
    [] OTHER -> "else"

\* The router's answer to any exception of its POST branch.
Router_post_error == Message(500, "Error generating image:")

\* The POST branch up to generate_image(prompt): the response it returns
\* there, or NoResponse when it goes on to the model.
Router_post_validate(event) ==
  LET parsed == json_loads(event_get(event, "body", "{}"))
      got == body_get_prompt(parsed.val)
  IN IF parsed.exc # "" THEN Router_post_error
     ELSE IF got.exc # "" THEN Router_post_error
     ELSE IF ~Truthy(got.val) THEN Message(400, "Prompt is required.")
     ELSE NoResponse

\* The response of the GET branch for what list_images() returned.
Router_get_response(image_urls_) == Images(image_urls_)

\* The router is invoked and runs up to its first external call.
Router_Receive(p, event) ==
  /\ req[p].pc = "idle"
  /\ LET r == [Idle EXCEPT !.handler = "router", !.event = event]
         http_method == event_get(event, "httpMethod", None)
         branch == Router_dispatch(http_method)
         v == Router_post_validate(event)
     IN req' = [req EXCEPT ![p] =
          IF EnvFalsy(BUCKET_NAME)
            THEN Done(r, Message(500, "S3_BUCKET_NAME environment variable is not set."))
          ELSE IF branch = "POST"
            THEN IF v # NoResponse THEN Done(r, v)
                 ELSE [r EXCEPT !.pc = "invoke", !.prompt = prompt_of(event)]
          ELSE IF branch = "GET"
            THEN [r EXCEPT !.pc = "list", !.prior = returned]
          ELSE Done(r, Message(405, "Method Not Allowed"))]
  /\ UNCHANGED <<BUCKET_NAME, YOUR_NAME, store, now, issued, returned>>

\* generate_image(prompt): invoke_model, json.loads of the body and
\* ['images'][0]; what it returns is not looked at before upload_to_s3.
Router_generate_image(p, outcome) ==
  /\ req[p].pc = "invoke"
  /\ req[p].handler = "router"
  /\ LET r == [req[p] EXCEPT !.calls = @ \cup {"invoke_model"}]
     IN req' = [req EXCEPT ![p] =
          CASE outcome = "ok_base64" ->
                 [r EXCEPT !.pc = "upload", !.model = "ok", !.base64_image = GoodBase64]
            [] outcome = "ok_bad_padding" ->
                 [r EXCEPT !.pc = "upload", !.model = "ok", !.base64_image = BadBase64]
            [] outcome = "not_str" ->
                 [r EXCEPT !.pc = "upload", !.model = "failed", !.base64_image = NotStr]
            [] OTHER -> Done([r EXCEPT !.model = "failed"], Router_post_error)]
  /\ UNCHANGED <<BUCKET_NAME, YOUR_NAME, store, now, issued, returned>>

\* upload_to_s3(base64_image) where b64decode raises.
Router_DecodeFails(p) ==
  /\ req[p].pc = "upload"
  /\ req[p].handler = "router"
  /\ ~b64decode_ok(req[p].base64_image)
  /\ req' = [req EXCEPT ![p] =
       Done([req[p] EXCEPT !.storage = IF req[p].model = "ok" THEN "failed" ELSE ""],
            Router_post_error)]
  /\ UNCHANGED <<BUCKET_NAME, YOUR_NAME, store, now, issued, returned>>

\* upload_to_s3(base64_image): b64decode, uuid4, put_object, the URL, and
\* the router's 200 response.
Router_upload_to_s3(p, id, outcome) ==
  /\ req[p].pc = "upload"
  /\ req[p].handler = "router"
  /\ b64decode_ok(req[p].base64_image)
  /\ id \in uuid4
  /\ issued' = issued \cup {id}
  /\ LET image_key_ == image_key(id)
         image_url == public_url(YOUR_NAME, image_key_)
         r == [req[p] EXCEPT !.calls = @ \cup {"put_object"}]
     IN IF outcome = "ok"
        THEN /\ store' = put_object(store, image_key_, now)
             /\ req' = [req EXCEPT ![p] = Done([r EXCEPT !.storage = "ok"], ImageUrl(image_url))]
             /\ returned' = returned \cup {image_url}
        ELSE /\ req' = [req EXCEPT ![p] = Done([r EXCEPT !.storage = "failed"], Router_post_error)]
             /\ UNCHANGED <<store, returned>>
  /\ UNCHANGED <<BUCKET_NAME, YOUR_NAME, now>>

\* The GET branch with a list_images() that lets the exception of
\* list_objects_v2 reach the router's except block.
Router_list_images_raising(p, outcome) ==
  /\ req[p].pc = "list"
  /\ LET contents == IF outcome = "ok" THEN list_objects_v2(store, Prefix) ELSE <<>>
         r == [req[p] EXCEPT !.calls = @ \cup {"list_objects_v2"},
                             !.listing = IF outcome = "ok" THEN "ok" ELSE "failed",
                             !.contents = contents]
     IN req' = [req EXCEPT ![p] =
          IF outcome = "ok"
          THEN Done(r, Images(list_images(YOUR_NAME, outcome, contents)))
          ELSE Done(r, Message(500, "Error listing images:"))]
  /\ UNCHANGED <<BUCKET_NAME, YOUR_NAME, store, now, issued, returned>>

\* The GET branch: list_images() and the 200 response.
Router_list_images(p, outcome) ==
  /\ req[p].pc = "list"
  /\ LET contents == IF outcome = "ok" THEN list_objects_v2(store, Prefix) ELSE <<>>
         r == [req[p] EXCEPT !.calls = @ \cup {"list_objects_v2"},
                             !.listing = IF outcome = "ok" THEN "ok" ELSE "failed",
                             !.contents = contents]
     IN req' = [req EXCEPT ![p] =
          Done(r, Router_get_response(list_images(YOUR_NAME, outcome, contents)))]
  /\ UNCHANGED <<BUCKET_NAME, YOUR_NAME, store, now, issued, returned>>

(* ------------------------------ platform ------------------------------ *)

\* The response is delivered and the invocation ends.
Return(p) ==
  /\ req[p].pc = "done"
  /\ req' = [req EXCEPT ![p] = Idle]
  /\ UNCHANGED <<BUCKET_NAME, YOUR_NAME, store, now, issued, returned>>

\* A second passes on the store's clock.
Tick ==
  /\ now < MaxClock
  /\ now' = now + 1
  /\ UNCHANGED <<BUCKET_NAME, YOUR_NAME, store, issued, req, returned>>

Next ==
  \/ \E p \in Procs, event \in PostEvents : GI_Receive(p, event)
  \/ \E p \in Procs, outcome \in ModelOutcomes : GI_InvokeModel(p, outcome)
  \/ \E p \in Procs : GI_DecodeFails(p)
  \/ \E p \in Procs, id \in Ids, outcome \in CallOutcomes : GI_Upload(p, id, outcome)
  \/ \E p \in Procs, event \in Events : Router_Receive(p, event)
  \/ \E p \in Procs, outcome \in ModelOutcomes : Router_generate_image(p, outcome)
  \/ \E p \in Procs : Router_DecodeFails(p)
  \/ \E p \in Procs, id \in Ids, outcome \in CallOutcomes : Router_upload_to_s3(p, id, outcome)
  \/ \E p \in Procs, outcome \in CallOutcomes : Router_list_images(p, outcome)
  \/ \E p \in Procs : Return(p)
  \/ Tick

Spec == Init /\ [][Next]_vars


(* ------------------------------- claims ------------------------------- *)

\* A request of the create operation: any invocation of generate_image's
\* handler, a POST to the router.
IsCreate(r) ==
  r.pc # "idle" /\ (r.handler = "generate_image"
                    \/ (r.handler = "router" /\ r.event.httpMethod = "POST"))

IsList(r) == r.pc # "idle" /\ r.handler = "router" /\ r.event.httpMethod = "GET"

Configured == BUCKET_NAME # None /\ BUCKET_NAME # ""

\* The bodies whose prompt is empty or absent.
EmptyPromptBodies ==
  {Absent, None, "{}", "{\"prompt\": null}", "{\"prompt\": \"\"}"}

\* The bodies that are no JSON, or JSON but no object.
MalformedBodies == {"not json", "[]"}

Range(seq) == {seq[i] : i \in 1 .. Len(seq)}

\* C1: with the storage location configured, a create request whose prompt
\* is empty or absent is answered 400 and has made no external call.
C1_Claim ==
  \A p \in Procs :
    (Configured /\ IsCreate(req[p]) /\ req[p].event.body \in EmptyPromptBodies)
      => /\ req[p].pc = "done"
         /\ req[p].response.statusCode = 400
         /\ req[p].calls = {}

\* C2: with S3_BUCKET_NAME unset every request, a list or a create with a
\* prompt, is answered 500 and has made no external call.
C2_Claim ==
  \A p \in Procs :
    (BUCKET_NAME = None /\ req[p].pc # "idle"
       /\ req[p].event.body \in {Absent, "{\"prompt\": \"a cat\"}"}
       /\ (req[p].event.body = Absent => req[p].event.httpMethod = "GET"))
      => /\ req[p].pc = "done"
         /\ req[p].response.statusCode = 500
         /\ req[p].calls = {}

\* C3: the step in which the storage step of a create fails, after the model
\* call succeeded, answers 500 "Error saving image:" and leaves the store as
\* it was.
C3_Claim ==
  [][\A p \in Procs :
       (req[p].pc = "upload" /\ req'[p].pc = "done" /\ IsCreate(req'[p])
          /\ req'[p].model = "ok" /\ req'[p].storage = "failed")
         => /\ req'[p].response.statusCode = 500
            /\ req'[p].response.message = "Error saving image:"
            /\ store' = store]_vars

\* C4: a create whose model call failed takes no step that changes the
\* store or calls put_object, and its final step answers 500
\* "Error generating image:".
C4_ModelFailure ==
  [][\A p \in Procs :
       (req'[p] # req[p] /\ IsCreate(req'[p]) /\ req'[p].model = "failed")
         => /\ store' = store
            /\ "put_object" \notin req'[p].calls
            /\ (req'[p].pc = "done" =>
                  /\ req'[p].response.statusCode = 500
                  /\ req'[p].response.message = "Error generating image:")]_vars

\* Both handlers have answered a failed model call, the router after an
\* images[0] that is no string went through upload_to_s3.
C4_Witness ==
  \E p, q \in Procs :
    /\ req[p].pc = "done" /\ req[p].handler = "generate_image"
    /\ req[p].model = "failed"
    /\ req[q].pc = "done" /\ req[q].handler = "router"
    /\ req[q].model = "failed" /\ req[q].base64_image = NotStr

\* C5: with the storage location configured, a create request whose body is
\* malformed is answered 400 "Invalid request body:" and has made no
\* external call.
C5_Claim ==
  \A p \in Procs :
    (Configured /\ IsCreate(req[p]) /\ req[p].event.body \in MalformedBodies)
      => /\ req[p].pc = "done"
         /\ req[p].response.statusCode = 400
         /\ req[p].response.message = "Invalid request body:"
         /\ req[p].calls = {}


\* The positions of `contents` that hold a file, not a "folder".
Files(contents) ==
  {i \in 1 .. Len(contents) : contents[i].Key[Len(contents[i].Key)] # "/"}

\* The LastModified of the object of `contents` that a URL names.
ModifiedOf(contents, url) ==
  LET i == CHOOSE j \in 1 .. Len(contents) :
             url = <<"https://", format(YOUR_NAME), ".mixtli.cloud/">> \o contents[j].Key
  IN contents[i].LastModified

\* C6: what a list request returns after list_objects_v2 answered is exactly
\* the URLs of the returned objects whose key does not end in "/", each
\* once, newest first; no returned URL ends in "/".
C6_ListOrdered ==
  \A p \in Procs :
    (req[p].pc = "done" /\ IsList(req[p]) /\ req[p].listing = "ok")
      => LET contents == req[p].contents
             images == req[p].response.images
         IN /\ Len(images) = Cardinality(Files(contents))
            /\ Range(images) =
                 { <<"https://", format(YOUR_NAME), ".mixtli.cloud/">> \o contents[i].Key :
                     i \in Files(contents) }
            /\ \A i, j \in 1 .. Len(images) :
                 i < j => ModifiedOf(contents, images[i]) >= ModifiedOf(contents, images[j])
            /\ \A i \in 1 .. Len(images) : images[i][Len(images[i])] # "/"

\* A listing of a folder object and two images, the newer image listed by
\* the store after the older one.
C6_Witness ==
  \E p \in Procs :
    /\ req[p].pc = "done" /\ IsList(req[p]) /\ req[p].listing = "ok"
    /\ Len(req[p].contents) = 3
    /\ req[p].contents[1].Key = FolderKey
    /\ req[p].contents[2].LastModified < req[p].contents[3].LastModified
    /\ Len(req[p].response.images) = 2

\* C7: a list request that began after a create returned 200 with imageUrl U,
\* and whose enumeration succeeded, returns U.
C7_Claim ==
  \A p \in Procs :
    (req[p].pc = "done" /\ IsList(req[p]) /\ req[p].listing = "ok")
      => req[p].prior \subseteq Range(req[p].response.images)

\* C8: the step in which a create succeeds adds exactly one object, under a
\* key generated-images/<id>.png that the store did not hold, changes no
\* object the store held, and returns a URL no earlier create returned.
C8_FreshKey ==
  [][\A p \in Procs :
       (req[p].pc = "upload" /\ req'[p].pc = "done" /\ req'[p].response.statusCode = 200)
         => \E id \in Ids :
              LET key == <<"generated-images", "/", id, ".png">>
              IN /\ key \notin DOMAIN store
                 /\ DOMAIN store' = DOMAIN store \cup {key}
                 /\ \A k \in DOMAIN store : store'[k] = store[k]
                 /\ req'[p].response.imageUrl =
                      <<"https://", format(YOUR_NAME), ".mixtli.cloud/">> \o key
                 /\ req'[p].response.imageUrl \notin returned]_vars

\* Two creates, one through each handler, were in flight together and both
\* succeeded.
C8_Witness ==
  \E p, q \in Procs :
    /\ req[p].pc = "done" /\ req[p].handler = "generate_image"
    /\ req[p].response.statusCode = 200
    /\ req[q].pc = "done" /\ req[q].handler = "router"
    /\ req[q].response.statusCode = 200
    /\ Cardinality(returned) = 2

\* C9 as stated: a request to the router whose method is neither POST nor
\* GET is answered 405 "Method Not Allowed" and has made no external call.
C9_Original ==
  \A p \in Procs :
    (req[p].pc # "idle" /\ req[p].handler = "router"
       /\ req[p].event.httpMethod \notin {"POST", "GET"})
      => /\ req[p].pc = "done"
         /\ req[p].response.statusCode = 405
         /\ req[p].response.message = "Method Not Allowed"
         /\ req[p].calls = {}

\* C9 amended: with the storage location configured, a request to the router
\* whose method is neither POST nor GET is answered 405 "Method Not Allowed"
\* whatever its body, and has made no external call.
C9_MethodNotAllowed ==
  \A p \in Procs :
    (Configured /\ req[p].pc # "idle" /\ req[p].handler = "router"
       /\ req[p].event.httpMethod \notin {"POST", "GET"})
      => /\ req[p].pc = "done"
         /\ req[p].response.statusCode = 405
         /\ req[p].response.message = "Method Not Allowed"
         /\ req[p].calls = {}

\* A PUT that carries a prompt and a request without a method were both
\* answered 405.
C9_Witness ==
  \E p, q \in Procs :
    /\ Configured
    /\ req[p].pc = "done" /\ req[p].handler = "router"
    /\ req[p].event.httpMethod = "PUT" /\ req[p].event.body # Absent
    /\ req[p].response.statusCode = 405
    /\ req[q].pc = "done" /\ req[q].handler = "router"
    /\ req[q].event.httpMethod = Absent
    /\ req[q].response.statusCode = 405

\* C10: the step that ends a list request, the storage location configured,
\* answers 200 with an images array, which is empty when the store holds
\* nothing under the prefix and when list_objects_v2 raised.
C10_ListNeverFails ==
  [][\A p \in Procs :
       (Configured /\ req[p].pc # "done" /\ req'[p].pc = "done" /\ IsList(req'[p]))
         => /\ req'[p].response.statusCode = 200
            /\ req'[p].response.message = ""
            /\ ({k \in DOMAIN store : Len(k) >= 2 /\ k[1] = "generated-images" /\ k[2] = "/"} = {}
                  => req'[p].response.images = <<>>)
            /\ (req'[p].listing = "failed" => req'[p].response.images = <<>>)]_vars

\* One list request found the prefix empty, another's enumeration raised
\* while images were stored; both were answered alike.
C10_Witness ==
  \E p, q \in Procs :
    /\ req[p].pc = "done" /\ IsList(req[p]) /\ req[p].listing = "ok"
    /\ req[p].contents = <<>>
    /\ req[q].pc = "done" /\ IsList(req[q]) /\ req[q].listing = "failed"
    /\ \E id \in Ids : <<"generated-images", "/", id, ".png">> \in DOMAIN store
    /\ req[p].response = req[q].response

=============================================================================
